---- MODULE Spec2Model ----
(***************************************************************************)
(* A model of gert's media downloader: Post::get_type (structs.rs), the    *)
(* Downloader run loop, task scheduling, fetch and post-processing, the    *)
(* file names, download_collection and its combining of video and audio    *)
(* (download.rs) and the DASH manifest scan parse_mpd (utils.rs).          *)
(***************************************************************************)
EXTENDS Integers, Sequences, FiniteSets, TLC

(***************************************************************************)
(* Bounds of the model.                                                    *)
(***************************************************************************)
\* longest post list of a run of Spec
MaxPosts == 2
\* length of the post list of a run of SpecRun (more than ten posts)
RunPosts == 11
\* number of runs over the same output directory
MaxRuns == 2
\* number of XML events of a manifest
MaxEvents == 12
\* greatest limit get_posts is called with (three pages)
MaxLimit == 250
\* greatest score of a listed post and greatest value of --upvotes
MaxScore == 3

(***************************************************************************)
(* String constants of download.rs.                                        *)
(***************************************************************************)
JPG_EXTENSION == "jpg"
PNG_EXTENSION == "png"
GIF_EXTENSION == "gif"
GIFV_EXTENSION == "gifv"
MP4_EXTENSION == "mp4"
REDDIT_IMAGE_SUBDOMAIN == "i.redd.it"
REDDIT_VIDEO_SUBDOMAIN == "v.redd.it"
IMGUR_DOMAIN == "imgur.com"
IMGUR_SUBDOMAIN == "i.imgur.com"
REDGIFS_DOMAIN == "redgifs.com"
GIPHY_DOMAIN == "giphy.com"
\* used by get_type, defined outside the files at hand
STREAMABLE_DOMAIN == "streamable.com"
JPEG == "jpeg"

\* Option::None
None == <<>>
Some(x) == <<x>>

(***************************************************************************)
(* URLs.  A URL text is scheme://host/seg/.../seg.ext?query, kept as a     *)
(* record of its pieces; ext = "" when the last segment has no dot, query  *)
(* = "" when there is none, valid = FALSE when Url::parse rejects the      *)
(* text.                                                                   *)
(***************************************************************************)
Url(h, p, e, q) == [valid |-> TRUE, host |-> h, path |-> p, ext |-> e, query |-> q]
BadUrl == [valid |-> FALSE, host |-> "", path |-> <<>>, ext |-> "", query |-> ""]

\* the searched-for names that occur as a substring of one host or segment
NeedlesIn(tok) ==
    CASE tok = "i.redd.it" -> {REDDIT_IMAGE_SUBDOMAIN}
      [] tok = "v.redd.it" -> {REDDIT_VIDEO_SUBDOMAIN}
      [] tok = "redgifs.com" -> {REDGIFS_DOMAIN}
      [] tok = "www.redgifs.com" -> {REDGIFS_DOMAIN}
      [] tok = "imgur.com" -> {IMGUR_DOMAIN}
      [] tok = "i.imgur.com" -> {IMGUR_DOMAIN, IMGUR_SUBDOMAIN}
      [] tok = "giphy.com" -> {GIPHY_DOMAIN}
      [] tok = "media.giphy.com" -> {GIPHY_DOMAIN}
      [] tok = "streamable.com" -> {STREAMABLE_DOMAIN}
      [] OTHER -> {}

\* the text pieces of a URL between slashes: the host, then the segments
UrlTokens(u) == <<u.host>> \o u.path

\* url.contains(needle): over the whole URL text, host and path alike
UrlContains(u, needle) ==
    \E k \in 1..Len(UrlTokens(u)) : needle \in NeedlesIn(UrlTokens(u)[k])

\* url.contains("imgur.com/a/"): a piece ending in imgur.com, then the
\* segment a, then a further slash
UrlContainsImgurAlbum(u) ==
    \E k \in 1..Len(UrlTokens(u)) :
        /\ IMGUR_DOMAIN \in NeedlesIn(UrlTokens(u)[k])
        /\ k + 2 <= Len(UrlTokens(u))
        /\ UrlTokens(u)[k + 1] = "a"

\* has_extension: the URL ends in a dot and one of the extensions
has_extension(u, exts) == u.ext \in exts

\* PathSegmentsMut::pop_if_empty
pop_if_empty(p) ==
    IF Len(p) > 0 /\ p[Len(p)] = "" THEN SubSeq(p, 1, Len(p) - 1) ELSE p

\* Post::get_url: the parsed URL up to the end of its path
get_url(post) ==
    IF post.url.valid
    THEN Some([post.url EXCEPT !.path = pop_if_empty(post.url.path),
                               !.query = ""])
    ELSE None

\* Post::get_type
get_type(post) ==
    IF post.gallery_data # None /\ post.media_metadata # None THEN "Gallery"
    ELSE IF get_url(post) = None THEN "Unsupported"
    ELSE LET url == get_url(post)[1] IN
      IF UrlContains(url, REDDIT_IMAGE_SUBDOMAIN)
         /\ has_extension(url, {JPG_EXTENSION, PNG_EXTENSION, JPEG})
      THEN "RedditImage"
      ELSE IF UrlContains(url, REDDIT_IMAGE_SUBDOMAIN)
              /\ has_extension(url, {GIF_EXTENSION})
      THEN "RedditGif"
      ELSE IF UrlContains(url, REDDIT_VIDEO_SUBDOMAIN)
      THEN (IF post.media = None THEN "Unsupported" ELSE "RedditVideo")
      ELSE IF UrlContains(url, REDGIFS_DOMAIN) THEN "RedGif"
      ELSE IF UrlContains(url, GIPHY_DOMAIN) THEN "GiphyGif"
      ELSE IF UrlContains(url, IMGUR_DOMAIN) /\ UrlContainsImgurAlbum(url)
      THEN "ImgurAlbum"
      ELSE IF UrlContains(url, IMGUR_DOMAIN) /\ UrlContains(url, IMGUR_SUBDOMAIN)
              /\ has_extension(url, {GIFV_EXTENSION, GIF_EXTENSION, MP4_EXTENSION})
      THEN "ImgurGif"
      ELSE IF UrlContains(url, IMGUR_DOMAIN) /\ UrlContains(url, IMGUR_SUBDOMAIN)
              /\ has_extension(url, {JPG_EXTENSION, JPEG, PNG_EXTENSION})
      THEN "ImgurImage"
      ELSE IF UrlContains(url, IMGUR_DOMAIN) /\ ~UrlContains(url, IMGUR_SUBDOMAIN)
      THEN "ImgurUnknown"
      ELSE IF UrlContains(url, STREAMABLE_DOMAIN) THEN "StreamableVideo"
      ELSE "Unsupported"

(***************************************************************************)
(* Posts (structs.rs PostData): url, title, gallery_data (the media ids    *)
(* of the items), media_metadata (media id -> MIME), media, subreddit,     *)
(* name.                                                                   *)
(***************************************************************************)
Post(u, t, g, mm, m, n) ==
    [url |-> u, title |-> t, gallery_data |-> g, media_metadata |-> mm,
     media |-> m, subreddit |-> "pics", name |-> n]

ImagePost == Post(Url("i.redd.it", <<"a">>, "jpg", ""), Some("Cat Pic"), None, None, None, "t3_a")
GifPost == Post(Url("i.redd.it", <<"b">>, "gif", ""), Some("cat_pic"), None, None, None, "t3_b")
GalleryPost ==
    Post(Url("www.reddit.com", <<"gallery", "g">>, "", ""), Some("Album"),
         Some(<<"m1", "m2">>), Some([m \in {"m1"} |-> "image/png"]), None, "t3_g")
NoTitlePost == Post(Url("i.redd.it", <<"c">>, "png", ""), None, None, None, None, "t3_c")
NoMetadataPost ==
    Post(Url("www.reddit.com", <<"gallery", "h">>, "", ""), Some("Album"),
         Some(<<"m1">>), None, None, "t3_h")
ForeignPost == Post(Url("example.com", <<"page">>, "html", ""), Some("Page"), None, None, None, "t3_d")
ForeignPathPost ==
    Post(Url("example.com", <<"i.redd.it", "a">>, "jpg", ""), Some("Page"), None, None, None, "t3_e")
ForeignGifsPost ==
    Post(Url("example.com", <<"redgifs.com", "x">>, "", ""), Some("Page"), None, None, None, "t3_f")
VideoPost == Post(Url("v.redd.it", <<"v">>, "", ""), Some("Clip"), None, None, Some("video"), "t3_v")
BadUrlPost == Post(BadUrl, Some("Page"), None, None, None, "t3_u")
\* the image of ImagePost, its URL carrying a query string
QueryPost == Post(Url("i.redd.it", <<"a">>, "jpg", "s=1"), Some("Cat Pic"), None, None, None, "t3_q")
\* a later post of the link of ImagePost
RepostPost == Post(Url("i.redd.it", <<"a">>, "jpg", ""), Some("Again"), None, None, None, "t3_r")
\* a gallery whose second item is declared as an archive
ZipGalleryPost ==
    Post(Url("www.reddit.com", <<"gallery", "z">>, "", ""), Some("Album"),
         Some(<<"m3", "m4">>),
         Some([m \in {"m3", "m4"} |-> IF m = "m3" THEN "image/png" ELSE "application/zip"]),
         None, "t3_z")

PostPool ==
    {ImagePost, GifPost, GalleryPost, NoTitlePost, NoMetadataPost, ForeignPost,
     ForeignPathPost, ForeignGifsPost, VideoPost, BadUrlPost}

\* the posts whose names meet: one link posted twice, with and without a
\* query string, galleries, a gif, a post without title
NamingPool ==
    {ImagePost, QueryPost, RepostPost, GifPost, GalleryPost, ZipGalleryPost,
     NoTitlePost}

\* the lists of at most n posts of a pool
ListsOf(pool, n) == UNION {[1..k -> pool] : k \in 0..n}
PostLists(n) == ListsOf(PostPool, n)

(***************************************************************************)
(* The state of a Downloader and of its run.                               *)
(***************************************************************************)
VARIABLES
    posts,               \* Downloader.posts
    should_download,     \* Downloader.should_download (FALSE: dry run)
    use_human_readable,  \* Downloader.use_human_readable
    ffmpeg_available,    \* Downloader.ffmpeg_available
    counters,            \* Downloader.supported, skipped, downloaded, failed
    fs,                  \* the paths that exist under the data directory
    pipe,                \* per post: where its process() call stands
    run_pc,              \* "running", "finished" (run returned Ok), "panicked"
    run_no,              \* which run over the data directory this is
    nfetch,              \* HTTP GETs sent by download_media in this run
    last_outcome,        \* how the latest task ended
    conserve_gifs,       \* main's conserve_gifs (the --conserve-gifs flag)
    mpd,                 \* the state of a parse_mpd call
    dc,                  \* the state of a download_collection call
    probe,               \* the state of a check_url_has_mime_type call
    sub,                 \* the state of a Subreddit::get_posts call
    main_filter          \* main's filter over one listed post

dl_vars ==
    <<posts, should_download, use_human_readable, ffmpeg_available, counters, fs,
      pipe, run_pc, run_no, nfetch, last_outcome, conserve_gifs>>
vars == <<dl_vars, mpd, dc, probe, sub, main_filter>>

data_directory == "."

\* Downloader::new: the four counters start at 0
NewCounters == [supported |-> 0, skipped |-> 0, downloaded |-> 0, failed |-> 0]

\* a mutant: a failed task is not counted
IncrButFailed(c, name) ==
    IF name = "failed" THEN c ELSE [c EXCEPT ![name] = (c[name] + 1) % (2 ^ 16)]

\* `*counter.lock().unwrap() += 1` on a u16
Incr(c, name) == [c EXCEPT ![name] = (c[name] + 1) % (2 ^ 16)]

\* a pipeline that has not started
Waiting == [pc |-> "waiting", item |-> 0, task |-> None]

\* DownloadTask::from_post; title.clone().unwrap() needs a title
from_post(post, url, extension, index) ==
    [url |-> url, subreddit |-> post.subreddit, extension |-> extension,
     post_name |-> post.name, post_title |-> post.title[1], index |-> index]

\* str.split('.').last() of a URL text: what follows its last dot
SplitLastDot(u) == [e |-> u.ext, q |-> u.query]
PlainExt(e) == [e |-> e, q |-> ""]

\* media.m.split('/').last()
MimeSubtype(m) ==
    CASE m = "image/png" -> "png"
      [] m = "image/jpg" -> "jpg"
      [] m = "image/gif" -> "gif"
      [] m = "application/zip" -> "zip"
      [] OTHER -> m

\* the title as generate_file_name writes it: lowercase, separators to _
CanonicalTitle(t) ==
    CASE t = "Cat Pic" -> "cat_pic"
      [] t = "cat_pic" -> "cat_pic"
      [] t = "Album" -> "album"
      [] t = "Page" -> "page"
      [] t = "Clip" -> "clip"
      [] t = "Again" -> "again"
      [] OTHER -> t

\* the text of an index: format!("{}", i) is <<i>> and
\* format!("component_{}", i) is <<"component", i>>
IndexText(i) == <<i>>
ComponentIndexText(i) == <<"component", i>>

\* a mutant: a name that is taken gets a fresh digit
generate_unused_file_name(url, subreddit, extension, name, title, index) ==
    [dir |-> data_directory, subreddit |-> subreddit,
     stem |-> <<"md5", url, Cardinality(fs)>>, ext |-> extension]

\* Downloader::generate_file_name.  A path is kept as the pieces format!
\* joins: "{dir}/{subreddit}/{stem}.{ext}", the stem being the digest of the
\* url text, or "{canonical_title}_{canonical_name}"
generate_file_name(url, subreddit, extension, name, title, index) ==
    IF ~use_human_readable
    THEN [dir |-> data_directory, subreddit |-> subreddit,
          stem |-> <<"md5", url>>, ext |-> extension]
    ELSE [dir |-> data_directory, subreddit |-> subreddit,
          stem |-> <<CanonicalTitle(title),
                     IF index = IndexText(0) THEN <<name>> ELSE <<name, index>>>>,
          ext |-> extension]

\* Downloader::get_filename
get_filename(task) ==
    generate_file_name(task.url, task.subreddit, task.extension, task.post_name,
                       task.post_title,
                       IF task.index = None THEN IndexText(0)
                       ELSE IndexText(task.index[1]))

\* a mutant: no path is ever found present
check_path_absent(file_name) == FALSE

\* utils::check_path_present
check_path_present(file_name) == file_name \in fs

\* download_path.replace(".gif", ".mp4")
GifToMp4(path) == [path EXCEPT !.ext = PlainExt(MP4_EXTENSION)]

(***************************************************************************)
(* Downloader::run: `for post in posts { self.process(post).await }`.      *)
(***************************************************************************)
Posts == 1..Len(posts)

\* the posts whose process() call has started and has not returned
InFlight == {i \in Posts : pipe[i].pc \notin {"waiting", "done"}}

\* a mutant: every process() call is spawned without being awaited
RunSpawnsAll(i) == TRUE

\* run awaits process(post) before it takes the next post
RunMayStart(i) == \A j \in 1..(i - 1) : pipe[j].pc = "done"

\* a mutant: the component indices are counted from 1
GalleryTasksFromOne(post) ==
    LET items == post.gallery_data[1]
        meta == post.media_metadata[1]
        ext(k) == IF items[k] \in DOMAIN meta
                  THEN MimeSubtype(meta[items[k]]) ELSE JPG_EXTENSION
    IN [k \in 1..Len(items) |->
           [url |-> Url(REDDIT_IMAGE_SUBDOMAIN, <<items[k]>>, ext(k), ""),
            extension |-> PlainExt(ext(k)), index |-> Some(k)]]

\* the tasks download_gallery makes of a gallery post, in item order
GalleryTasks(post) ==
    LET items == post.gallery_data[1]
        meta == post.media_metadata[1]
        ext(k) == IF items[k] \in DOMAIN meta
                  THEN MimeSubtype(meta[items[k]]) ELSE JPG_EXTENSION
    IN [k \in 1..Len(items) |->
           [url |-> Url(REDDIT_IMAGE_SUBDOMAIN, <<items[k]>>, ext(k), ""),
            extension |-> PlainExt(ext(k)), index |-> Some(k - 1)]]

\* the task download_reddit_image makes: the post's own URL text
ImageTasks(post) ==
    <<[url |-> post.url, extension |-> SplitLastDot(post.url), index |-> None]>>

\* the (url, extension, index) triples process() hands to from_post
TasksOf(post) ==
    CASE get_type(post) = "Gallery" -> GalleryTasks(post)
      [] get_type(post) \in {"RedditImage", "RedditGif"} -> ImageTasks(post)
      [] OTHER -> <<>>

\* the pipeline of post i once n of its tasks have ended: the next item of
\* the loop, or the return of process()
Advance(i, n) ==
    [pc |-> IF n = Len(TasksOf(posts[i])) THEN "done" ELSE "resolve",
     item |-> n, task |-> None]

\* Downloader::process up to its first task: get_type and the dispatch
Process(i) ==
    /\ run_pc = "running"
    /\ pipe[i].pc = "waiting"
    /\ \A j \in 1..(i - 1) : pipe[j].pc # "waiting"
    /\ RunMayStart(i)
    /\ pipe' = [pipe EXCEPT ![i] = Advance(i, 0)]
    /\ UNCHANGED <<posts, should_download, use_human_readable, ffmpeg_available,
                   conserve_gifs,
                   counters, fs, run_pc, run_no, nfetch, last_outcome, mpd, dc, probe, sub, main_filter>>

\* the next task of post i, as from_post builds it
NextTask(i) ==
    LET t == TasksOf(posts[i])[pipe[i].item + 1]
    IN from_post(posts[i], t.url, t.extension, t.index)

\* DownloadTask::from_post on a post without title: unwrap() panics
FromPostPanic(i) ==
    /\ run_pc = "running"
    /\ pipe[i].pc = "resolve"
    /\ posts[i].title = None
    /\ run_pc' = "panicked"
    /\ UNCHANGED <<posts, should_download, use_human_readable, ffmpeg_available,
                   conserve_gifs,
                   counters, fs, pipe, run_no, nfetch, last_outcome, mpd, dc, probe, sub, main_filter>>

\* a mutant: the dry run does not return and goes on to the fetch
DryRunGoesOn(i) ==
    /\ run_pc = "running"
    /\ pipe[i].pc = "resolve"
    /\ posts[i].title # None
    /\ ~should_download
    /\ counters' = Incr(Incr(counters, "supported"), "skipped")
    /\ pipe' = [pipe EXCEPT ![i] =
                 [pc |-> "fetching", item |-> pipe[i].item + 1,
                  task |-> Some(NextTask(i))]]
    /\ last_outcome' = "dry_run"
    /\ UNCHANGED <<posts, should_download, use_human_readable, ffmpeg_available,
                   conserve_gifs, fs, run_pc, run_no, nfetch, mpd, dc, probe, sub, main_filter>>

\* schedule_task in a dry run: supported and skipped, then return
ScheduleDryRun(i) ==
    /\ run_pc = "running"
    /\ pipe[i].pc = "resolve"
    /\ posts[i].title # None
    /\ ~should_download
    /\ counters' = Incr(Incr(counters, "supported"), "skipped")
    /\ pipe' = [pipe EXCEPT ![i] = Advance(i, pipe[i].item + 1)]
    /\ last_outcome' = "dry_run"
    /\ UNCHANGED <<posts, should_download, use_human_readable, ffmpeg_available,
                   conserve_gifs,
                   fs, run_pc, run_no, nfetch, mpd, dc, probe, sub, main_filter>>

\* schedule_task when the file name is present: supported and skipped
ScheduleSkipPresent(i) ==
    /\ run_pc = "running"
    /\ pipe[i].pc = "resolve"
    /\ posts[i].title # None
    /\ should_download
    /\ check_path_present(get_filename(NextTask(i)))
    /\ counters' = Incr(Incr(counters, "supported"), "skipped")
    /\ pipe' = [pipe EXCEPT ![i] = Advance(i, pipe[i].item + 1)]
    /\ last_outcome' = "present"
    /\ UNCHANGED <<posts, should_download, use_human_readable, ffmpeg_available,
                   conserve_gifs,
                   fs, run_pc, run_no, nfetch, mpd, dc, probe, sub, main_filter>>

\* schedule_task up to `self.download_media(..).await`
ScheduleFetch(i) ==
    /\ run_pc = "running"
    /\ pipe[i].pc = "resolve"
    /\ posts[i].title # None
    /\ should_download
    /\ ~check_path_present(get_filename(NextTask(i)))
    /\ counters' = Incr(counters, "supported")
    /\ pipe' = [pipe EXCEPT ![i] =
                 [pc |-> "fetching", item |-> pipe[i].item + 1,
                  task |-> Some(NextTask(i))]]
    /\ last_outcome' = "fetching"
    /\ UNCHANGED <<posts, should_download, use_human_readable, ffmpeg_available,
                   conserve_gifs,
                   fs, run_pc, run_no, nfetch, mpd, dc, probe, sub, main_filter>>

\* the task post i is fetching or converting, and its file name
Task(i) == pipe[i].task[1]
FileName(i) == get_filename(Task(i))

\* task.extension == GIF_EXTENSION, with ffmpeg at hand: post_process converts
Converts(task) == ffmpeg_available /\ task.extension = PlainExt(GIF_EXTENSION)

\* the ways download_media ends without Ok(true)
FetchFailures == {"dir_err", "send_err", "bytes_err", "create_err", "copy_err"}

\* download_media returns Err(CouldNotCreateDirectory) or Ok(false):
\* schedule_task counts the task failed
FetchFail(i) ==
    /\ run_pc = "running"
    /\ pipe[i].pc = "fetching"
    /\ \E o \in FetchFailures :
         /\ nfetch' = IF o = "dir_err" THEN nfetch ELSE nfetch + 1
         /\ fs' = IF o = "copy_err" THEN fs \cup {FileName(i)} ELSE fs
    /\ counters' = Incr(counters, "failed")
    /\ pipe' = [pipe EXCEPT ![i] = Advance(i, pipe[i].item)]
    /\ last_outcome' = "failed"
    /\ UNCHANGED <<posts, should_download, use_human_readable, ffmpeg_available,
                   conserve_gifs,
                   run_pc, run_no, mpd, dc, probe, sub, main_filter>>

\* the status of the response to the GET: a success (2xx) or not; the
\* fetch never looks at it
ResponseStatuses == {"200", "404"}

\* how a task whose response had that status, and was saved, ended
Downloaded(status) == IF status = "200" THEN "downloaded" ELSE "downloaded_404"

\* download_media returns Ok(true): the file is written, the task counted
\* downloaded, and post_process runs up to `command.wait().await`
FetchOk(i) ==
    /\ run_pc = "running"
    /\ pipe[i].pc = "fetching"
    /\ nfetch' = nfetch + 1
    /\ fs' = fs \cup {FileName(i)}
    /\ counters' = Incr(counters, "downloaded")
    /\ pipe' = [pipe EXCEPT ![i] =
                 IF Converts(Task(i)) THEN [pipe[i] EXCEPT !.pc = "converting"]
                 ELSE Advance(i, pipe[i].item)]
    /\ \E status \in ResponseStatuses : last_outcome' = Downloaded(status)
    /\ UNCHANGED <<posts, should_download, use_human_readable, ffmpeg_available,
                   conserve_gifs,
                   run_pc, run_no, mpd, dc, probe, sub, main_filter>>

\* as FetchOk, but ffmpeg cannot be spawned: expect() panics
SpawnPanic(i) ==
    /\ run_pc = "running"
    /\ pipe[i].pc = "fetching"
    /\ Converts(Task(i))
    /\ nfetch' = nfetch + 1
    /\ fs' = fs \cup {FileName(i)}
    /\ counters' = Incr(counters, "downloaded")
    /\ last_outcome' = "downloaded"
    /\ pipe' = [pipe EXCEPT ![i].pc = "converting"]
    /\ run_pc' = "panicked"
    /\ UNCHANGED <<posts, should_download, use_human_readable, ffmpeg_available,
                   conserve_gifs,
                   run_no, mpd, dc, probe, sub, main_filter>>

\* the ways the gif conversion ends
ConvertResults == {"success", "remove_err", "nonzero", "nonzero_partial", "wait_err"}

\* what post_process returns when the conversion ended as r: `?` passes on
\* the error of wait() and of remove_file, every other way ends in Ok(())
post_process_result(r) == IF r \in {"wait_err", "remove_err"} THEN "Err" ELSE "Ok"

\* post_process after ffmpeg ended: on success the gif is removed
ConvertDone(i) ==
    /\ run_pc = "running"
    /\ pipe[i].pc = "converting"
    /\ \E r \in ConvertResults :
         /\ fs' = CASE r = "success" -> (fs \cup {GifToMp4(FileName(i))}) \ {FileName(i)}
                   [] r \in {"remove_err", "nonzero_partial"} -> fs \cup {GifToMp4(FileName(i))}
                   [] OTHER -> fs
         /\ last_outcome' = r
    /\ pipe' = [pipe EXCEPT ![i] = Advance(i, pipe[i].item)]
    /\ UNCHANGED <<posts, should_download, use_human_readable, ffmpeg_available,
                   conserve_gifs,
                   counters, run_pc, run_no, nfetch, mpd, dc, probe, sub, main_filter>>

\* run after its loop: the summary is logged and Ok(()) returned
RunFinish ==
    /\ run_pc = "running"
    /\ \A i \in Posts : pipe[i].pc = "done"
    /\ run_pc' = "finished"
    /\ UNCHANGED <<posts, should_download, use_human_readable, ffmpeg_available,
                   conserve_gifs,
                   counters, fs, pipe, run_no, nfetch, last_outcome, mpd, dc, probe, sub, main_filter>>

\* the program is run again with the same arguments: Downloader::new
Rerun ==
    /\ run_pc = "finished"
    /\ run_no < MaxRuns
    /\ run_no' = run_no + 1
    /\ run_pc' = "running"
    /\ counters' = NewCounters
    /\ pipe' = [i \in Posts |-> Waiting]
    /\ nfetch' = 0
    /\ last_outcome' = "none"
    /\ UNCHANGED <<posts, should_download, use_human_readable, ffmpeg_available,
                   conserve_gifs,
                   fs, mpd, dc, probe, sub, main_filter>>

\* the greatest value of a counter (u16)
U16Max == 65535

\* `*self.supported.lock().unwrap() += 1` on 65535 in a build with overflow
\* checks: the addition panics.  (A build without them wraps, as Incr does;
\* supported is never less than another counter, so it overflows first.)
SupportedOverflowPanic(i) ==
    /\ run_pc = "running"
    /\ pipe[i].pc = "resolve"
    /\ posts[i].title # None
    /\ counters.supported = U16Max
    /\ run_pc' = "overflowed"
    /\ UNCHANGED <<posts, should_download, use_human_readable, ffmpeg_available,
                   conserve_gifs,
                   counters, fs, pipe, run_no, nfetch, last_outcome, mpd, dc, probe, sub, main_filter>>

(***************************************************************************)
(* utils::parse_mpd.  The manifest reaches the scan as the events of the   *)
(* XML reader, one per step.  Beside the variables of the function, the    *)
(* record keeps what the document declared so far: wf, whether it has the  *)
(* shape AdaptationSet(video|audio) { Representation(bandwidth) text };    *)
(* reps, the representations of such a document in document order, each    *)
(* with the contentType of its adaptation set, its bandwidth and the text  *)
(* that followed it (dropped once the document leaves the shape); kind,    *)
(* the contentType of the open adaptation set; ctx, the place in the       *)
(* document; nrep, the number of Representation elements; audio_rep,       *)
(* whether a Representation stood in an audio adaptation set.              *)
(***************************************************************************)
MpdIdle == [pc |-> "idle"]
DcIdle == [pc |-> "idle"]

MpdStart ==
    [pc |-> "fetch", n |-> 0,
     max_video_bandwidth |-> 0, max_audio_bandwidth |-> 0, current_bandwidth |-> 0,
     is_video |-> FALSE, max_video_url |-> None, max_audio_url |-> None,
     reps |-> <<>>, kind |-> "none", ctx |-> "top", wf |-> TRUE, nrep |-> 0,
     audio_rep |-> FALSE]

\* a bandwidth attribute: absent, a text that is no number, a number that
\* fits an i32, or a decimal number beyond the i32 range
NoBandwidth == [k |-> "absent", v |-> 0]
NotANumber == [k |-> "text", v |-> 0]
TooBig == [k |-> "big", v |-> 0]
Bandwidth(x) == [k |-> "num", v |-> x]
BandwidthAttrs == {NoBandwidth, NotANumber, TooBig} \cup {Bandwidth(x) : x \in 0..3}

\* attributes.find(bandwidth).and_then(|a| a.value.parse().ok()).unwrap_or(0)
\* with an i32 target: only a number in the i32 range parses
parse_bandwidth(a) == IF a.k = "num" THEN a.v ELSE 0

\* a mutant: the maximum is never raised
KeepsMax(of_kind, cur, max) == max

\* `if <kind> && current_bandwidth > max { max = current_bandwidth }`
RaisedMax(of_kind, cur, max) == IF of_kind /\ cur > max THEN cur ELSE max

\* a mutant: the text is taken only above the maximum
BandwidthAbove(cur, max) == cur > max

\* `current_bandwidth == max_<kind>_bandwidth` of the Characters arm
BandwidthIsMax(cur, max) == cur = max

\* the `for e in parser` loop has a further event to take
MpdScanning == mpd.pc = "scan" /\ mpd.n < MaxEvents

\* reqwest::get(url) and response.text() succeed
MpdFetchOk ==
    /\ mpd.pc = "fetch"
    /\ mpd' = [mpd EXCEPT !.pc = "scan"]
    /\ UNCHANGED <<dl_vars, dc, probe, sub, main_filter>>

\* reqwest::get(url) or response.text() fails: expect() panics
MpdFetchPanic ==
    /\ mpd.pc = "fetch"
    /\ mpd' = [mpd EXCEPT !.pc = "panicked"]
    /\ UNCHANGED <<dl_vars, dc, probe, sub, main_filter>>

\* StartElement AdaptationSet; ct is its contentType: "video", "audio", or
\* "none" for another value or no attribute
MpdAdaptationSet(ct) ==
    /\ MpdScanning
    /\ LET ok == mpd.wf /\ ct # "none" /\ mpd.ctx # "rep" IN
       mpd' = [mpd EXCEPT
                 !.n = @ + 1,
                 !.is_video = IF ct = "video" THEN TRUE
                              ELSE IF ct = "audio" THEN FALSE ELSE @,
                 !.kind = ct,
                 !.ctx = "set",
                 !.wf = ok,
                 !.reps = IF ok THEN @ ELSE <<>>]
    /\ UNCHANGED <<dl_vars, dc, probe, sub, main_filter>>

\* StartElement Representation with bandwidth attribute a
MpdRepresentation(a) ==
    /\ MpdScanning
    /\ LET cur == parse_bandwidth(a)
           ok == mpd.wf /\ mpd.ctx \in {"set", "repdone"} /\ a.k = "num" /\ a.v >= 0
       IN
       mpd' = [mpd EXCEPT
                 !.n = @ + 1,
                 !.current_bandwidth = cur,
                 !.max_video_bandwidth = RaisedMax(mpd.is_video, cur, @),
                 !.max_audio_bandwidth = RaisedMax(~mpd.is_video, cur, @),
                 !.nrep = @ + 1,
                 !.audio_rep = @ \/ mpd.kind = "audio",
                 !.ctx = "rep",
                 !.wf = ok,
                 !.reps = IF ok
                          THEN Append(@, [kind |-> mpd.kind, bw |-> a.v, url |-> None])
                          ELSE <<>>]
    /\ UNCHANGED <<dl_vars, dc, probe, sub, main_filter>>

\* the text of a Characters event: the first text after the latest
\* Representation is this representation's URL
TextHere == IF mpd.ctx = "rep" THEN <<"url", mpd.nrep>> ELSE <<"text", mpd.nrep>>

\* Characters(content)
MpdCharacters ==
    /\ MpdScanning
    /\ LET content == TextHere
           video == mpd.is_video
                    /\ BandwidthIsMax(mpd.current_bandwidth, mpd.max_video_bandwidth)
           audio == ~mpd.is_video
                    /\ BandwidthIsMax(mpd.current_bandwidth, mpd.max_audio_bandwidth)
           ok == mpd.wf /\ mpd.ctx = "rep"
       IN mpd' = [mpd EXCEPT
                 !.n = @ + 1,
                 !.max_video_url = IF video THEN Some(content) ELSE @,
                 !.max_audio_url = IF audio THEN Some(content) ELSE @,
                 !.ctx = IF mpd.ctx = "rep" THEN "repdone" ELSE @,
                 !.wf = ok,
                 !.reps = IF ok THEN [@ EXCEPT ![Len(@)].url = Some(content)]
                          ELSE <<>>]
    /\ UNCHANGED <<dl_vars, dc, probe, sub, main_filter>>

\* any other event (another element, an end tag, whitespace): `_ => {}`
MpdOtherEvent ==
    /\ MpdScanning
    /\ mpd' = [mpd EXCEPT !.n = @ + 1]
    /\ UNCHANGED <<dl_vars, dc, probe, sub, main_filter>>

\* Err(e): the scan breaks off and the candidates so far are returned
MpdError ==
    /\ mpd.pc = "scan"
    /\ mpd' = [mpd EXCEPT !.pc = "returned", !.wf = FALSE, !.reps = <<>>]
    /\ UNCHANGED <<dl_vars, dc, probe, sub, main_filter>>

\* the reader is exhausted: the candidates are returned
MpdEndDocument ==
    /\ mpd.pc = "scan"
    /\ mpd' = [mpd EXCEPT !.pc = "returned", !.wf = @ /\ mpd.ctx # "rep",
                           !.reps = IF mpd.wf /\ mpd.ctx # "rep" THEN @ ELSE <<>>]
    /\ UNCHANGED <<dl_vars, dc, probe, sub, main_filter>>

(***************************************************************************)
(* Downloader::download_collection over one post whose get_media result is *)
(* one Reddit video: the loop over the components of the media, then the   *)
(* ffmpeg run that combines a video and an audio component.  dc keeps the  *)
(* locals of the call: media_type, the component URLs, index (components   *)
(* handled), local_skipped, media_files, the summary, whether the          *)
(* temporary directory exists; and beside them how each component ended    *)
(* (outcomes) and how the combining ended (stitch).                        *)
(***************************************************************************)
\* the fallback URL of a Reddit video, with and without the mp4 extension
DashMp4 == Url(REDDIT_VIDEO_SUBDOMAIN, <<"x", "DASH_720">>, "mp4", "")
DashBare == Url(REDDIT_VIDEO_SUBDOMAIN, <<"x", "DASH_720">>, "", "")

\* get_reddit_video: the audio URL is the video URL with its last segment
\* replaced by DASH_audio.mp4
AudioUrl(u) == [u EXCEPT !.path = SubSeq(@, 1, Len(@) - 1) \o <<"DASH_audio">>,
                         !.ext = MP4_EXTENSION]

\* the SupportedMedia get_reddit_video returns
VideoWithAudio(u) == [media_type |-> "RedditVideoWithAudio", components |-> <<u, AudioUrl(u)>>]
VideoWithoutAudio(u) == [media_type |-> "RedditVideoWithoutAudio", components |-> <<u>>]
VideoMedia ==
    {VideoWithAudio(u) : u \in {DashMp4, DashBare}}
      \cup {VideoWithoutAudio(u) : u \in {DashMp4, DashBare}}

\* text.split('.').last() of a URL text: what follows the last dot, which is
\* a dot of the host when the last segment has none
AfterLastDot(u) ==
    IF u.ext # "" THEN u.ext
    ELSE CASE u.host = "v.redd.it" /\ u.path = <<"x", "DASH_720">> -> "it/x/DASH_720"
           [] OTHER -> "unknown"

\* .replace('/', "_")
SlashToUnderscore(t) == CASE t = "it/x/DASH_720" -> "it_x_DASH_720" [] OTHER -> t

\* format!("{}.{}", extension, "mp4")
DotMp4(t) == CASE t = "it_x_DASH_720" -> "it_x_DASH_720.mp4" [] OTHER -> t

\* extension.ends_with("mp4")
EndsWithMp4(t) == t \in {"mp4", "it_x_DASH_720.mp4"}

\* the extension of a component file
ComponentExtension(media_type, u) ==
    LET clean == SlashToUnderscore(AfterLastDot([u EXCEPT !.query = ""]))
    IN PlainExt(IF media_type \in {"RedditVideoWithoutAudio", "RedditVideoWithAudio"}
                   /\ ~EndsWithMp4(clean)
                THEN DotMp4(clean) ELSE clean)

\* the index text of a component
ItemIndex(media_type, index) ==
    IF media_type = "RedditVideoWithAudio" THEN ComponentIndexText(index)
    ELSE IndexText(index)

\* the post of the call: post_title is "" when the post has none
DcPost == VideoPost

\* the file name of the component at a 0-based index
ComponentFileName(media_type, urls, index) ==
    generate_file_name(urls[index + 1], DcPost.subreddit,
                       ComponentExtension(media_type, urls[index + 1]),
                       DcPost.name, DcPost.title[1], ItemIndex(media_type, index))

\* the name of the combined file and of the ffmpeg log: no component index
CombinedFileName(urls) ==
    generate_file_name(urls[1], DcPost.subreddit,
                       [e |-> AfterLastDot(urls[1]), q |-> urls[1].query],
                       DcPost.name, DcPost.title[1], IndexText(0))
LogFileName(urls) ==
    generate_file_name(urls[1], DcPost.subreddit, PlainExt("log"),
                       DcPost.name, DcPost.title[1], IndexText(0))

\* the directory of a path exists when the path has no further slash in it
ParentExists(path) == path.ext.e # "it/x/DASH_720"

\* the call at the head of its loop over the components of a media
DcStart(media) ==
    [pc |-> "components", media_type |-> media.media_type,
     components |-> media.components, index |-> 0, local_skipped |-> 0,
     media_files |-> <<>>, outcomes |-> <<>>,
     summary |-> [media_supported |-> Len(media.components),
                  media_downloaded |-> 0, media_skipped |-> 0],
     tmp |-> FALSE, stitch |-> "none"]

\* the loop has a further component to take
DcInLoop == dc.pc = "components" /\ dc.index < Len(dc.components)
DcFileName == ComponentFileName(dc.media_type, dc.components, dc.index)

\* dc after the component at hand ended in a way; skipped says whether
\* save_or_skip returned Skipped
DcAfterComponent(outcome, skipped, downloaded) ==
    [dc EXCEPT !.index = @ + 1,
               !.local_skipped = IF skipped /\ should_download THEN @ + 1 ELSE @,
               !.summary.media_skipped = IF skipped THEN @ + 1 ELSE @,
               !.summary.media_downloaded = IF downloaded THEN @ + 1 ELSE @,
               !.media_files = Append(@, DcFileName),
               !.outcomes = Append(@, outcome)]

\* a dry run: the URL is logged and counted skipped
DcComponentDryRun ==
    /\ DcInLoop
    /\ ~should_download
    /\ dc' = DcAfterComponent("dry_run", TRUE, FALSE)
    /\ UNCHANGED <<dl_vars, mpd, probe, sub, main_filter>>

\* save_or_skip finds the file present
DcComponentPresent ==
    /\ DcInLoop
    /\ should_download
    /\ check_path_present(DcFileName)
    /\ dc' = DcAfterComponent("present", TRUE, FALSE)
    /\ UNCHANGED <<dl_vars, mpd, probe, sub, main_filter>>

\* save_or_skip: download_media returns Ok(true)
DcComponentSaved ==
    /\ DcInLoop
    /\ should_download
    /\ ~check_path_present(DcFileName)
    /\ dc' = DcAfterComponent("downloaded", FALSE, TRUE)
    /\ fs' = fs \cup {DcFileName}
    /\ UNCHANGED <<posts, should_download, use_human_readable, ffmpeg_available,
                   conserve_gifs, counters, pipe, run_pc, run_no, nfetch,
                   last_outcome, mpd, probe, sub, main_filter>>

\* save_or_skip: download_media returns Ok(false), counted Skipped; the
\* file is there when only the copy failed
DcComponentNotSaved ==
    /\ DcInLoop
    /\ should_download
    /\ ~check_path_present(DcFileName)
    /\ dc' = DcAfterComponent("not_saved", TRUE, FALSE)
    /\ \E o \in FetchFailures \ {"dir_err"} :
         fs' = IF o = "copy_err" THEN fs \cup {DcFileName} ELSE fs
    /\ UNCHANGED <<posts, should_download, use_human_readable, ffmpeg_available,
                   conserve_gifs, counters, pipe, run_pc, run_no, nfetch,
                   last_outcome, mpd, probe, sub, main_filter>>

\* save_or_skip: download_media returns Err, which `?` hands on
DcComponentError ==
    /\ DcInLoop
    /\ should_download
    /\ ~check_path_present(DcFileName)
    /\ dc' = [dc EXCEPT !.pc = "error"]
    /\ UNCHANGED <<dl_vars, mpd, probe, sub, main_filter>>

\* the test before the combining, after the loop
DcMayCombine ==
    /\ dc.media_type = "RedditVideoWithAudio"
    /\ Len(dc.media_files) = 2
    /\ dc.local_skipped < 2

DcLoopDone == dc.pc = "components" /\ dc.index = Len(dc.components)

\* nothing to combine, or no ffmpeg: the call returns Ok
DcNoCombine ==
    /\ DcLoopDone
    /\ ~(DcMayCombine /\ ffmpeg_available)
    /\ dc' = [dc EXCEPT !.pc = "returned"]
    /\ UNCHANGED <<dl_vars, mpd, probe, sub, main_filter>>

\* a dry run: the temporary directory is made and dropped
DcCombineDryRun ==
    /\ DcLoopDone
    /\ DcMayCombine /\ ffmpeg_available
    /\ ~should_download
    /\ dc' = [dc EXCEPT !.pc = "returned"]
    /\ UNCHANGED <<dl_vars, mpd, probe, sub, main_filter>>

\* tempdir() fails, or ffmpeg cannot be started: `?` hands the error on
DcCombineError ==
    /\ DcLoopDone
    /\ DcMayCombine /\ ffmpeg_available
    /\ should_download
    /\ dc' = [dc EXCEPT !.pc = "error"]
    /\ UNCHANGED <<dl_vars, mpd, probe, sub, main_filter>>

\* ffmpeg is started on the two media files, writing into the temporary
\* directory
DcCombineStart ==
    /\ DcLoopDone
    /\ DcMayCombine /\ ffmpeg_available
    /\ should_download
    /\ dc' = [dc EXCEPT !.pc = "ffmpeg", !.tmp = TRUE]
    /\ UNCHANGED <<dl_vars, mpd, probe, sub, main_filter>>

\* ffmpeg succeeded (it had both inputs): the media files are removed and
\* the temporary file renamed to the combined name; a failed remove_file
\* or rename is handed on by `?`; the temporary directory is dropped
DcCombineOk ==
    /\ dc.pc = "ffmpeg"
    /\ \A k \in 1..2 : dc.media_files[k] \in fs
    /\ \E r \in {"renamed", "rename_err", "remove_err"} :
         /\ r = "renamed" => ParentExists(CombinedFileName(dc.components))
         /\ fs' = CASE r = "renamed" ->
                         (fs \ {dc.media_files[1], dc.media_files[2]})
                           \cup {CombinedFileName(dc.components)}
                    [] r = "rename_err" -> fs \ {dc.media_files[1], dc.media_files[2]}
                    [] OTHER -> fs
         /\ dc' = [dc EXCEPT !.pc = IF r = "renamed" THEN "returned" ELSE "error",
                             !.tmp = FALSE, !.stitch = r]
    /\ UNCHANGED <<posts, should_download, use_human_readable, ffmpeg_available,
                   conserve_gifs, counters, pipe, run_pc, run_no, nfetch,
                   last_outcome, mpd, probe, sub, main_filter>>

\* ffmpeg ended with a non-zero status: its output is written to a log file
DcCombineFailed ==
    /\ dc.pc = "ffmpeg"
    /\ fs' = fs \cup {LogFileName(dc.components)}
    /\ dc' = [dc EXCEPT !.pc = "returned", !.tmp = FALSE, !.stitch = "failed"]
    /\ UNCHANGED <<posts, should_download, use_human_readable, ffmpeg_available,
                   conserve_gifs, counters, pipe, run_pc, run_no, nfetch,
                   last_outcome, mpd, probe, sub, main_filter>>

\* the program is run again over the same post and directory
DcRerun ==
    /\ dc.pc \in {"returned", "error"}
    /\ run_no < MaxRuns
    /\ run_no' = run_no + 1
    /\ dc' = DcStart([media_type |-> dc.media_type, components |-> dc.components])
    /\ UNCHANGED <<posts, should_download, use_human_readable, ffmpeg_available,
                   conserve_gifs, counters, fs, pipe, run_pc, nfetch,
                   last_outcome, mpd, probe, sub, main_filter>>

(***************************************************************************)
(* utils::check_url_has_mime_type.  A HEAD request is sent and the         *)
(* Content-Type of the answer is compared with the requested subtype.      *)
(***************************************************************************)

ProbeIdle == [pc |-> "idle"]

\* the subtypes a Content-Type can carry and a caller can ask for
Subtypes ==
    {"jpeg", "png", "gif", "mp4", "webm", "html", "plain", "json", "zip", "xml"}

\* what the HEAD request can bring: no answer at all, an answer without
\* Content-Type, a Content-Type that is not visible ASCII (to_str fails) or
\* not a media type (Mime::from_str fails), or a media type with a subtype
HeadAnswers ==
    {[kind |-> k, subtype |-> ""] :
       k \in {"send_err", "no_content_type", "not_text", "not_mime"}}
    \cup {[kind |-> "mime", subtype |-> s] : s \in Subtypes}

\* matches!(content_type.subtype(), _mime_type): `_mime_type` is an identifier
\* pattern, it binds the value and matches every subtype
matches_mime_type(subtype, mime_type) == TRUE

\* the value check_url_has_mime_type returns
check_url_has_mime_type(answer, mime_type) ==
    CASE answer.kind = "send_err" -> "Err"
      [] answer.kind = "no_content_type" -> "Ok(false)"
      [] answer.kind \in {"not_text", "not_mime"} -> "Err"
      [] OTHER -> IF matches_mime_type(answer.subtype, mime_type)
                  THEN "Ok(true)" ELSE "Ok(false)"

\* a call of check_url_has_mime_type that has not sent its request yet
ProbeStart(mime_type) == [pc |-> "head", mime_type |-> mime_type]

\* the request is answered and the function returns
ProbeHead ==
    /\ probe.pc = "head"
    /\ \E answer \in HeadAnswers :
         probe' = [pc |-> "returned", mime_type |-> probe.mime_type,
                   answer |-> answer,
                   result |-> check_url_has_mime_type(answer, probe.mime_type)]
    /\ UNCHANGED <<dl_vars, mpd, dc, sub, main_filter>>

(***************************************************************************)
(* Subreddit::get_posts.  The posts of a page are kept as one chunk        *)
(* [page, n]: the n posts of the page-th answer; the name of its last post *)
(* is <<page, n>>.                                                         *)
(***************************************************************************)

SubIdle == [pc |-> "idle"]

\* the greatest page the listing endpoint is asked for
PageSize == 100

\* a mutant: the page limit is not capped
PageLimitUncapped(remaining) == remaining

\* `if remaining > 100 { 100 } else { remaining }`
PageLimit(remaining) == IF remaining > PageSize THEN PageSize ELSE remaining

\* the name of the last post of a chunk
LastName(chunk) == <<chunk.page, chunk.n>>

\* how many posts an answer to a request for lim posts can hold
ChildCounts(lim) == {1, lim} \ {0}

\* a call of get_posts before its first request
SubStart(limit) ==
    [pc |-> "called", limit |-> limit, remaining |-> limit, page |-> 1,
     after |-> None, posts |-> <<>>, requests |-> <<>>, answer |-> "none"]

\* the request get_feed sends
FeedRequest(limit, after) == [limit |-> limit, after |-> after]

\* limit <= 100: one get_feed, its children are returned
GetPostsSingleOk ==
    /\ sub.pc = "called"
    /\ sub.limit <= PageSize
    /\ \E n \in ChildCounts(sub.limit) \cup {0} :
         sub' = [sub EXCEPT
                   !.pc = "returned",
                   !.requests = <<FeedRequest(sub.limit, None)>>,
                   !.posts = IF n = 0 THEN <<>> ELSE <<[page |-> 1, n |-> n]>>,
                   !.answer = IF n = 0 THEN "empty" ELSE "posts"]
    /\ UNCHANGED <<dl_vars, mpd, dc, probe, main_filter>>

\* limit <= 100: the answer is no Listing, `?` returns the error
GetPostsSingleErr ==
    /\ sub.pc = "called"
    /\ sub.limit <= PageSize
    /\ sub' = [sub EXCEPT !.pc = "error",
                          !.requests = <<FeedRequest(sub.limit, None)>>,
                          !.answer = "json_err"]
    /\ UNCHANGED <<dl_vars, mpd, dc, probe, main_filter>>

\* the loop of get_posts is at its head with something remaining
Paging == sub.pc \in {"called", "paging"} /\ sub.limit > PageSize /\ sub.remaining > 0

\* sub after a request of the loop that leaves `remaining` posts to ask for
AfterPage(remaining, answer) ==
    [sub EXCEPT
       !.pc = IF remaining > 0 THEN "paging" ELSE "returned",
       !.remaining = remaining,
       !.requests = Append(sub.requests, FeedRequest(PageLimit(sub.remaining), sub.after)),
       !.answer = answer]

\* a page with children: they are appended, `after` is the last post's name
GetPostsPageOk ==
    /\ Paging
    /\ \E n \in ChildCounts(PageLimit(sub.remaining)) :
         LET chunk == [page |-> sub.page, n |-> n]
         IN sub' = [AfterPage(sub.remaining - PageLimit(sub.remaining), "posts")
                      EXCEPT !.posts = Append(sub.posts, chunk),
                             !.after = Some(LastName(chunk)),
                             !.page = sub.page + 1]
    /\ UNCHANGED <<dl_vars, mpd, dc, probe, main_filter>>

\* a page without children: remaining = 0, the loop ends
GetPostsPageEmpty ==
    /\ Paging
    /\ sub' = AfterPage(0, "empty")
    /\ UNCHANGED <<dl_vars, mpd, dc, probe, main_filter>>

\* get_feed returns Err(_): remaining = 0, the loop ends
GetPostsPageErr ==
    /\ Paging
    /\ sub' = AfterPage(0, "json_err")
    /\ UNCHANGED <<dl_vars, mpd, dc, probe, main_filter>>

\* get_feed: send() fails and expect("Bad response") panics
GetFeedPanic ==
    /\ sub.pc \in {"called", "paging"}
    /\ sub' = [sub EXCEPT
                 !.pc = "panicked",
                 !.requests = Append(sub.requests,
                                FeedRequest(IF sub.limit <= PageSize THEN sub.limit
                                            ELSE PageLimit(sub.remaining), sub.after)),
                 !.answer = "send_err"]
    /\ UNCHANGED <<dl_vars, mpd, dc, probe, main_filter>>

(***************************************************************************)
(* main: the filter over the posts get_posts returned.                     *)
(***************************************************************************)

FilterIdle == [pc |-> "idle"]

\* the scores of listed posts and the values of --upvotes
Scores == (0 - 1)..MaxScore
UpvotesArgs == 0..MaxScore

\* the listed posts, as far as the filter looks at them: whether url is
\* Some, is_self, score, and whether the pattern matches the title
ListedPosts ==
    [has_url : BOOLEAN, is_self : BOOLEAN, score : Scores, is_match : BOOLEAN]

\* the two filter closures of main
Kept(post, upvotes) ==
    /\ post.has_url /\ ~post.is_self /\ post.score > upvotes
    /\ post.is_match

\* main before it filters a listed post
FilterStart(post, upvotes) == [pc |-> "listed", post |-> post, upvotes |-> upvotes]

\* the post passes through the filter
FilterPost ==
    /\ main_filter.pc = "listed"
    /\ main_filter' = [pc |-> "filtered", post |-> main_filter.post,
                       upvotes |-> main_filter.upvotes,
                       kept |-> Kept(main_filter.post, main_filter.upvotes)]
    /\ UNCHANGED <<dl_vars, mpd, dc, probe, sub>>

\* the state after Downloader::new over a list of posts
InitWith(lists, m) ==
    /\ posts \in lists
    /\ should_download \in BOOLEAN
    /\ use_human_readable \in BOOLEAN
    /\ ffmpeg_available \in BOOLEAN
    /\ conserve_gifs \in BOOLEAN
    /\ dc = DcIdle
    /\ counters = NewCounters
    /\ fs = {}
    /\ pipe = [i \in 1..Len(posts) |-> Waiting]
    /\ run_pc = "running"
    /\ run_no = 1
    /\ nfetch = 0
    /\ last_outcome = "none"
    /\ mpd = m
    /\ probe = ProbeIdle
    /\ sub = SubIdle
    /\ main_filter = FilterIdle

Init == InitWith(PostLists(MaxPosts), MpdIdle)

\* a list of RunPosts posts: one post of the pool, listed again and again
InitRun == InitWith({[k \in 1..RunPosts |-> p] : p \in PostPool}, MpdIdle)

Next ==
    \/ \E i \in Posts : Process(i)
    \/ \E i \in Posts : FromPostPanic(i)
    \/ \E i \in Posts : ScheduleDryRun(i)
    \/ \E i \in Posts : ScheduleSkipPresent(i)
    \/ \E i \in Posts : ScheduleFetch(i)
    \/ \E i \in Posts : FetchFail(i)
    \/ \E i \in Posts : FetchOk(i)
    \/ \E i \in Posts : SpawnPanic(i)
    \/ \E i \in Posts : ConvertDone(i)
    \/ RunFinish
    \/ Rerun

\* a call of parse_mpd, beside a Downloader that has nothing to do
InitMpd ==
    /\ InitWith({<<>>}, MpdStart)
    /\ should_download /\ ~use_human_readable /\ ffmpeg_available
    /\ ~conserve_gifs

NextMpd ==
    \/ MpdFetchOk
    \/ MpdFetchPanic
    \/ \E ct \in {"video", "audio", "none"} : MpdAdaptationSet(ct)
    \/ \E a \in BandwidthAttrs : MpdRepresentation(a)
    \/ MpdCharacters
    \/ MpdOtherEvent
    \/ MpdError
    \/ MpdEndDocument

\* runs over the posts whose names meet
InitNames == InitWith(ListsOf(NamingPool, MaxPosts), MpdIdle)

\* a call of download_collection, by a Downloader with no post to process
InitCollection ==
    /\ posts = <<>>
    /\ should_download \in BOOLEAN
    /\ use_human_readable \in BOOLEAN
    /\ ffmpeg_available \in BOOLEAN
    /\ conserve_gifs = FALSE
    /\ dc \in {DcStart(media) : media \in VideoMedia}
    /\ counters = NewCounters
    /\ fs = {}
    /\ pipe = <<>>
    /\ run_pc = "running"
    /\ run_no = 1
    /\ nfetch = 0
    /\ last_outcome = "none"
    /\ mpd = MpdIdle
    /\ probe = ProbeIdle
    /\ sub = SubIdle
    /\ main_filter = FilterIdle

NextCollection ==
    \/ DcComponentDryRun
    \/ DcComponentPresent
    \/ DcComponentSaved
    \/ DcComponentNotSaved
    \/ DcComponentError
    \/ DcNoCombine
    \/ DcCombineDryRun
    \/ DcCombineError
    \/ DcCombineStart
    \/ DcCombineOk
    \/ DcCombineFailed
    \/ DcRerun

\* a Downloader that has nothing to do, beside the call under study
QuietDownloader ==
    /\ posts = <<>>
    /\ should_download = TRUE
    /\ use_human_readable = FALSE
    /\ ffmpeg_available = TRUE
    /\ conserve_gifs = FALSE
    /\ counters = NewCounters
    /\ fs = {}
    /\ pipe = <<>>
    /\ run_pc = "running"
    /\ run_no = 1
    /\ nfetch = 0
    /\ last_outcome = "none"
    /\ mpd = MpdIdle
    /\ dc = DcIdle

\* a call of check_url_has_mime_type for each subtype
InitProbe ==
    /\ QuietDownloader
    /\ probe \in {ProbeStart(t) : t \in Subtypes}
    /\ sub = SubIdle
    /\ main_filter = FilterIdle

NextProbe == ProbeHead

\* a call of get_posts for each limit
InitPosts ==
    /\ QuietDownloader
    /\ probe = ProbeIdle
    /\ sub \in {SubStart(limit) : limit \in 0..MaxLimit}
    /\ main_filter = FilterIdle

NextPosts ==
    \/ GetPostsSingleOk
    \/ GetPostsSingleErr
    \/ GetPostsPageOk
    \/ GetPostsPageEmpty
    \/ GetPostsPageErr
    \/ GetFeedPanic

\* main filtering one listed post, for each post and each --upvotes
InitFilter ==
    /\ QuietDownloader
    /\ probe = ProbeIdle
    /\ sub = SubIdle
    /\ main_filter \in {FilterStart(p, u) : p \in ListedPosts, u \in UpvotesArgs}

NextFilter == FilterPost


\* the counters once n tasks are counted, all of them in the way `how`
CountersAfter(n, how) == [NewCounters EXCEPT !.supported = n, ![how] = n]

\* a run over a long list of posts, at the point where 65534 tasks are
\* counted and the last posts of the list are left: `posts` and `pipe` hold
\* the posts that are left, fs the files under their names (none yet)
InitLate ==
    /\ posts \in PostLists(MaxPosts)
    /\ should_download \in BOOLEAN
    /\ use_human_readable \in BOOLEAN
    /\ ffmpeg_available \in BOOLEAN
    /\ conserve_gifs \in BOOLEAN
    /\ counters \in {CountersAfter(U16Max - 1, how) :
                       how \in IF should_download
                               THEN {"skipped", "downloaded", "failed"}
                               ELSE {"skipped"}}
    /\ fs = {}
    /\ pipe = [i \in 1..Len(posts) |-> Waiting]
    /\ run_pc = "running"
    /\ run_no = 1
    /\ nfetch = 0
    /\ last_outcome = "none"
    /\ mpd = MpdIdle
    /\ dc = DcIdle
    /\ probe = ProbeIdle
    /\ sub = SubIdle
    /\ main_filter = FilterIdle

NextLate ==
    \/ \E i \in Posts : Process(i)
    \/ \E i \in Posts : FromPostPanic(i)
    \/ \E i \in Posts : SupportedOverflowPanic(i)
    \/ \E i \in Posts : ScheduleDryRun(i)
    \/ \E i \in Posts : ScheduleSkipPresent(i)
    \/ \E i \in Posts : ScheduleFetch(i)
    \/ \E i \in Posts : FetchFail(i)
    \/ \E i \in Posts : FetchOk(i)
    \/ \E i \in Posts : SpawnPanic(i)
    \/ \E i \in Posts : ConvertDone(i)
    \/ RunFinish
    \/ Rerun

Spec == Init /\ [][Next]_vars
SpecLate == InitLate /\ [][NextLate]_vars
SpecProbe == InitProbe /\ [][NextProbe]_vars
SpecPosts == InitPosts /\ [][NextPosts]_vars
SpecFilter == InitFilter /\ [][NextFilter]_vars
SpecCollection == InitCollection /\ [][NextCollection]_vars
SpecNames == InitNames /\ [][Next]_vars
SpecRun == InitRun /\ [][Next]_vars
SpecMpd == InitMpd /\ [][NextMpd]_vars

(***************************************************************************)
(* Properties of Downloader::run and schedule_task.                        *)
(***************************************************************************)

\* C1: during run, over any number of posts (more than ten in SpecRun), at
\* most ten post pipelines are in flight at the same instant.
C1_ConcurrencyCeiling == Cardinality(InFlight) <= 10

\* the eleventh post of a list is being fetched
C1_Witness ==
    /\ Len(posts) > 10
    /\ run_pc = "running"
    /\ \E i \in Posts : i > 10 /\ pipe[i].pc = "fetching"

RECURSIVE TasksHanded(_)
\* the number of tasks the posts 1..n handed to schedule_task in this run
TasksHanded(n) == IF n = 0 THEN 0 ELSE pipe[n].item + TasksHanded(n - 1)

\* C3: every task handed to schedule_task adds one to supported and then
\* one to exactly one of skipped, downloaded, failed: supported is the number
\* of tasks handed over, and supported = skipped + downloaded + failed but
\* for the tasks whose fetch is still awaited (none at the end of the run).
C3_CounterBalance ==
    /\ counters.supported = TasksHanded(Len(posts))
    /\ counters.supported =
         counters.skipped + counters.downloaded + counters.failed
           + Cardinality({i \in Posts : pipe[i].pc = "fetching"})
    /\ run_pc = "finished" =>
         counters.supported = counters.skipped + counters.downloaded + counters.failed

\* a finished run that counted a skipped, a downloaded and a failed task
C3_Witness ==
    /\ run_pc = "finished"
    /\ counters.skipped > 0 /\ counters.downloaded > 0 /\ counters.failed > 0

\* C4: no failure of one post aborts the run: whatever the posts (a post
\* without title included), the run is never left by a panic.
C4_NoPostAbortsRun == run_pc # "panicked"

\* the hosts get_type knows
KnownHost(h) == NeedlesIn(h) # {}

\* posts without gallery metadata whose URL host is no known site host
ForeignHostPost(post) ==
    /\ ~(post.gallery_data # None /\ post.media_metadata # None)
    /\ post.url.valid
    /\ ~KnownHost(post.url.host)

\* C9: a post without gallery metadata whose URL host is none of the known
\* hosts is classified Unsupported, whatever its path, and processing it
\* schedules no task.
C9_ForeignHostUnsupported ==
    \A i \in Posts :
        (ForeignHostPost(posts[i]) /\ pipe[i].pc # "waiting")
        => (get_type(posts[i]) = "Unsupported" /\ pipe[i].item = 0)

\* the value of a counter of the Downloader; a counter it does not keep
\* never counts anything
Counted(c, name) == IF name \in DOMAIN c THEN c[name] ELSE 0

\* C10: processing a post classified Unsupported adds exactly one to the
\* unsupported counter and leaves the four other counters unchanged.
C10_UnsupportedCounted ==
    [][\A i \in Posts :
         ( /\ pipe[i].pc = "waiting"
           /\ pipe'[i].pc # "waiting"
           /\ get_type(posts[i]) = "Unsupported" )
         => ( /\ Counted(counters', "unsupported") = Counted(counters, "unsupported") + 1
              /\ \A c \in {"supported", "skipped", "downloaded", "failed"} :
                     counters'[c] = counters[c] )]_vars

(***************************************************************************)
(* Properties of the file names.                                           *)
(***************************************************************************)
\* the k-th task of post i, as process() builds it
TaskAt(i, k) ==
    LET t == TasksOf(posts[i])[k] IN from_post(posts[i], t.url, t.extension, t.index)

\* the tasks of post i (none for a post without title: from_post panics)
TaskNumbers(i) ==
    IF posts[i].title = None THEN {} ELSE 1..Len(TasksOf(posts[i]))

\* the tasks process() builds of the posts of the pools
PoolTasks ==
    UNION {{from_post(p, TasksOf(p)[k].url, TasksOf(p)[k].extension, TasksOf(p)[k].index) :
              k \in 1..Len(TasksOf(p))} :
           p \in {q \in PostPool \cup NamingPool : q.title # None}}

SameButQuery(u, v) == u # v /\ [u EXCEPT !.query = ""] = [v EXCEPT !.query = ""]

\* C12: in hash mode, two tasks whose URLs differ only in the query string
\* get the same file name.
C12_QueryIgnoredInHash ==
    ~use_human_readable =>
        \A i, j \in Posts : \A k \in TaskNumbers(i) : \A l \in TaskNumbers(j) :
            ( /\ pipe[i].pc = "done" /\ pipe[j].pc = "done"
              /\ SameButQuery(TaskAt(i, k).url, TaskAt(j, l).url) )
            => get_filename(TaskAt(i, k)) = get_filename(TaskAt(j, l))

\* the index text a file name carries between its stem and its extension
IndexSuffix(path) ==
    IF path.stem[1] # "md5" /\ Len(path.stem[2]) = 2
    THEN Some(path.stem[2][2]) ELSE None

\* C13: in either naming mode the file name of a task with component index
\* n >= 1 carries "_n" before its extension.
C13_IndexAppended ==
    \A i \in Posts : \A k \in TaskNumbers(i) :
        ( /\ pipe[i].item >= k
          /\ TaskAt(i, k).index # None
          /\ TaskAt(i, k).index[1] >= 1 )
        => IndexSuffix(get_filename(TaskAt(i, k))) = Some(IndexText(TaskAt(i, k).index[1]))

\* the posts of the list are different posts
DistinctPosts == \A i, j \in Posts : i # j => posts[i].name # posts[j].name

\* C14: the tasks of different posts and of different items of a gallery
\* have different file names: in a first run over an empty directory in
\* which no fetch fails, no task finds its file present because of another.
C14_NoTaskMeetsAnother ==
    (run_no = 1 /\ DistinctPosts /\ counters.failed = 0) => last_outcome # "present"

\* C15: with ffmpeg at hand, a fetched gif is not converted in conserve
\* mode and stays as it is; without conserve mode, when ffmpeg succeeds,
\* the mp4 is at the gif path with the extension replaced and the gif is gone.
C15_GifConversion ==
    [][\A i \in Posts :
         /\ conserve_gifs =>
              /\ pipe'[i].pc # "converting"
              /\ (i \in InFlight /\ pipe[i].task # None /\ FileName(i) \in fs)
                   => FileName(i) \in fs'
         /\ ( /\ ~conserve_gifs
              /\ pipe[i].pc = "converting" /\ pipe'[i].pc # "converting"
              /\ last_outcome' \in {"success", "remove_err"} )
            => (GifToMp4(FileName(i)) \in fs' /\ FileName(i) \notin fs')]_vars

\* a file name of an archive
ArchivePath(path) == path.ext.e = "zip"

\* C16: post-processing a fetched archive extracts its entries and removes
\* the archive: once a run without failed fetch is over, no archive is left
\* among the files.
C16_ArchiveRemoved ==
    (run_pc = "finished" /\ counters.failed = 0) => \A f \in fs : ~ArchivePath(f)

\* C20: in a dry run every task handed to schedule_task adds one to
\* supported and one to skipped and nothing else happens: no GET is sent,
\* no file is made, nothing is fetched or converted, downloaded and failed
\* stay 0.
C20_DryRunOnlyCounts ==
    ~should_download =>
        /\ counters.supported = TasksHanded(Len(posts))
        /\ counters.skipped = counters.supported
        /\ counters.downloaded = 0 /\ counters.failed = 0
        /\ nfetch = 0
        /\ fs = {}
        /\ \A i \in Posts : pipe[i].pc \notin {"fetching", "converting"}

\* a dry run over two tasks or more is over
C20_Witness ==
    /\ ~should_download
    /\ run_pc = "finished"
    /\ counters.supported >= 2
    /\ last_outcome = "dry_run"

(***************************************************************************)
(* Properties of the combining of video and audio in download_collection.  *)
(***************************************************************************)
\* C17: once the video and the audio component of a Reddit video are
\* combined, exactly one file is left for the post, at the file name of the
\* video component; none at the file name of the audio component, none in
\* the temporary directory.
C17_CombinedLeavesOneFile ==
    dc.stitch = "renamed" => (fs = {dc.media_files[1]} /\ ~dc.tmp)

\* C18: when ffmpeg fails to combine the components, the audio file is
\* removed and the video file is left where it is.
C18_FailedCombineDropsAudio ==
    [][(dc.pc = "ffmpeg" /\ dc'.stitch = "failed") =>
         /\ dc.media_files[2] \notin fs'
         /\ dc.media_files[1] \in fs => dc.media_files[1] \in fs']_vars

\* C19: the combining starts only when both components were downloaded in
\* this call, never when one of them was skipped or was not saved.
C19_CombineAfterBothSaved ==
    dc.pc = "ffmpeg" => dc.outcomes = <<"downloaded", "downloaded">>

(***************************************************************************)
(* Properties of parse_mpd.                                                *)
(***************************************************************************)
MpdKinds == {"video", "audio"}

\* the candidate parse_mpd returns for a kind
Candidate(kind) == IF kind = "video" THEN mpd.max_video_url ELSE mpd.max_audio_url

\* the representations the document declared for a kind
RepsOf(kind) == {k \in 1..Len(mpd.reps) : mpd.reps[k].kind = kind}

\* those of the greatest declared bandwidth
BestOf(kind) ==
    {k \in RepsOf(kind) : \A j \in RepsOf(kind) : mpd.reps[j].bw <= mpd.reps[k].bw}

\* C5: for a well-formed manifest, whatever the order of its adaptation
\* sets and representations, each returned candidate is the URL text of a
\* representation of its kind with the greatest declared bandwidth (absent
\* when the kind has no representation).
C5_GreatestBandwidthSelected ==
    (mpd.pc = "returned" /\ mpd.wf) =>
        \A kind \in MpdKinds :
            IF RepsOf(kind) = {} THEN Candidate(kind) = None
            ELSE \E k \in BestOf(kind) : Candidate(kind) = mpd.reps[k].url

\* video bandwidths low, high, middle and audio low, high (as 500, 1500,
\* 900 and 128, 256): the second and the fifth URL are returned
C5_Witness ==
    /\ mpd.pc = "returned" /\ mpd.wf
    /\ Len(mpd.reps) = 5
    /\ [k \in 1..5 |-> mpd.reps[k].kind] = <<"video", "video", "video", "audio", "audio">>
    /\ [k \in 1..5 |-> mpd.reps[k].bw] = <<1, 3, 2, 1, 2>>
    /\ mpd.max_video_url = Some(<<"url", 2>>)
    /\ mpd.max_audio_url = Some(<<"url", 5>>)

\* C6: when several representations of a kind declare the same greatest
\* bandwidth, the URL of the one latest in the manifest is returned.
C6_TieFavoursLater ==
    (mpd.pc = "returned" /\ mpd.wf) =>
        \A kind \in MpdKinds :
            RepsOf(kind) # {} =>
                \E k \in BestOf(kind) :
                    /\ \A j \in BestOf(kind) : j <= k
                    /\ Candidate(kind) = mpd.reps[k].url

\* two video representations tie at the greatest bandwidth
C6_Witness ==
    /\ mpd.pc = "returned" /\ mpd.wf
    /\ \E j, k \in BestOf("video") : j < k /\ mpd.max_video_url = mpd.reps[k].url

\* C7: parse_mpd never panics, whatever fails while the manifest is
\* fetched or parsed.
C7_ParseMpdNeverPanics == mpd.pc # "panicked"

\* C8: for a manifest without audio representation the audio candidate is
\* absent, whatever other text the document holds.
C8_NoAudioNoCandidate ==
    (mpd.pc = "returned" /\ ~mpd.audio_rep) => mpd.max_audio_url = None

(***************************************************************************)
(* Claims about later runs, the counters and the fetch.                    *)
(***************************************************************************)

\* C21: dedup covers the converted file: in a second run over the same
\* directory, a gif task whose mp4 is there (the gif fetched, converted and
\* removed by the first run) is counted skipped and is not fetched.
C21_ConvertedGifSkipped ==
    [][\A i \in Posts :
         ( /\ run_no = 2 /\ should_download
           /\ pipe[i].pc = "resolve" /\ pipe'[i] # pipe[i]
           /\ posts[i].title # None
           /\ NextTask(i).extension = PlainExt(GIF_EXTENSION)
           /\ GifToMp4(get_filename(NextTask(i))) \in fs
           /\ get_filename(NextTask(i)) \notin fs )
         => ( /\ pipe'[i].pc # "fetching"
              /\ counters'.skipped = counters.skipped + 1
              /\ nfetch' = nfetch )]_vars

\* C22: the counters only grow: within a run every step leaves each counter
\* as it is or adds exactly one to it, with no wrap-around and no abort on
\* the addition, also beyond 65535 counted tasks.
C22_CountersOnlyGrow ==
    [][run_no' = run_no =>
         /\ \A c \in DOMAIN counters : counters'[c] \in {counters[c], counters[c] + 1}
         /\ run_pc' # "overflowed"]_vars

\* C23: when the transcoder exits with a non-zero status while converting a
\* gif, post_process returns an error and the fetched gif is still at its
\* path.
C23_FailedConversionIsError ==
    [][\A i \in Posts :
         ( /\ pipe[i].pc = "converting" /\ pipe'[i].pc # "converting"
           /\ last_outcome' \in {"nonzero", "nonzero_partial"} )
         => ( /\ post_process_result(last_outcome') = "Err"
              /\ FileName(i) \in fs' )]_vars

(***************************************************************************)
(* Claims about check_url_has_mime_type.                                   *)
(***************************************************************************)

\* C24: the probe reports success only when the answer carries a
\* Content-Type whose subtype is the requested one: a Content-Type of
\* another subtype, or no Content-Type, is not a success.
C24_SuccessMeansRequestedSubtype ==
    probe.pc = "returned" =>
        ( probe.result = "Ok(true)"
          <=> ( probe.answer.kind = "mime"
                /\ probe.answer.subtype = probe.mime_type ) )

(***************************************************************************)
(* Claims about galleries.                                                 *)
(***************************************************************************)

\* a post that has gallery items and a metadata map
IsGallery(post) == post.gallery_data # None /\ post.media_metadata # None

\* the extension the claim gives item k (from 0) of a gallery post: the
\* subtype of the declared MIME, jpg when the media id is not in the map
DeclaredExtension(post, k) ==
    LET id == post.gallery_data[1][k + 1]
        meta == post.media_metadata[1]
    IN IF id \in DOMAIN meta THEN MimeSubtype(meta[id]) ELSE "jpg"

\* C25: a gallery post with N items schedules exactly N tasks in item
\* order: the task scheduled as the (k+1)-th is for item k, carries index k
\* and the extension declared for that item (jpg when the map has no entry),
\* and when process() returns N tasks were scheduled.
C25_OneTaskPerGalleryItem ==
    \A i \in Posts :
        IsGallery(posts[i]) =>
            /\ pipe[i].item <= Len(posts[i].gallery_data[1])
            /\ pipe[i].pc = "done" => pipe[i].item = Len(posts[i].gallery_data[1])
            /\ pipe[i].task # None =>
                 LET k == pipe[i].item - 1
                 IN /\ Task(i).index = Some(k)
                    /\ Task(i).url.host = "i.redd.it"
                    /\ Task(i).url.path = <<posts[i].gallery_data[1][k + 1]>>
                    /\ Task(i).url.ext = DeclaredExtension(posts[i], k)
                    /\ Task(i).extension = PlainExt(DeclaredExtension(posts[i], k))

\* a finished run that fetched both items of a gallery, one of them absent
\* from the metadata map
C25_Witness ==
    /\ run_pc = "finished" /\ should_download /\ run_no = 1
    /\ \E i \in Posts :
         /\ IsGallery(posts[i])
         /\ Len(posts[i].gallery_data[1]) = 2
         /\ \E id \in {posts[i].gallery_data[1][2]} : id \notin DOMAIN posts[i].media_metadata[1]
         /\ pipe[i].pc = "done" /\ pipe[i].item = 2
    /\ counters.downloaded >= 2
    /\ {f.ext.e : f \in fs} = {"png", "jpg"}

(***************************************************************************)
(* Claims about main's filter.                                             *)
(***************************************************************************)

\* C26: --upvotes NUM is the minimum number of upvotes: a listed link post
\* (url present, no self post, title matching) is kept if and only if its
\* score is at least NUM.
C26_MinimumUpvotesKept ==
    ( /\ main_filter.pc = "filtered"
      /\ main_filter.post.has_url /\ ~main_filter.post.is_self
      /\ main_filter.post.is_match )
    => (main_filter.kept <=> main_filter.post.score >= main_filter.upvotes)

(***************************************************************************)
(* Claims about the response and the file of a fetch.                      *)
(***************************************************************************)

\* C27: a fetch that is answered with a non-success status writes no file
\* at the canonical path and is not counted downloaded.
C27_ErrorStatusNotDownloaded ==
    [][\A i \in Posts :
         ( /\ pipe[i].pc = "fetching" /\ pipe'[i] # pipe[i]
           /\ last_outcome' = Downloaded("404") )
         => ( /\ counters'.downloaded = counters.downloaded
              /\ FileName(i) \notin fs' )]_vars

\* C28: whenever a task is counted failed, no file is at its canonical path
\* once the task has ended (a later run fetches it again).
C28_FailedLeavesNoFile ==
    [][\A i \in Posts :
         ( /\ pipe[i].pc = "fetching" /\ pipe'[i] # pipe[i]
           /\ counters'.failed = counters.failed + 1 )
         => FileName(i) \notin fs']_vars

(***************************************************************************)
(* Claims about Subreddit::get_posts.                                      *)
(***************************************************************************)

\* get_posts has ended: it returned Ok or Err, or get_feed panicked
GetPostsEnded == sub.pc \in {"returned", "error", "panicked"}

\* ceil(limit / 100)
PagesOf(limit) == (limit + PageSize - 1) \div PageSize

\* the sum of the page limits of the first n requests
RECURSIVE LimitsSum(_)
LimitsSum(n) == IF n = 0 THEN 0 ELSE sub.requests[n].limit + LimitsSum(n - 1)

\* C29: get_posts ends after boundedly many requests, whatever the answers:
\* for limit <= 100 it sends exactly one request; for limit > 100 at most
\* ceil(limit/100) requests (and fewer as long as the loop goes on), each
\* with a page limit between 1 and 100, the page limits summing to at most
\* limit, the first without `after` and each later one with the name of the
\* last post received so far.
C29_BoundedPaging ==
    /\ sub.limit <= PageSize =>
         /\ Len(sub.requests) <= 1
         /\ GetPostsEnded <=> Len(sub.requests) = 1
    /\ sub.limit > PageSize =>
         /\ Len(sub.requests) <= PagesOf(sub.limit)
         /\ ~GetPostsEnded => Len(sub.requests) < PagesOf(sub.limit)
         /\ \A k \in 1..Len(sub.requests) :
              /\ sub.requests[k].limit \in 1..PageSize
              /\ sub.requests[k].after =
                   IF k = 1 THEN None ELSE Some(LastName(sub.posts[k - 1]))
         /\ LimitsSum(Len(sub.requests)) <= sub.limit

\* a call with limit 250 that returned after three pages of posts, the last
\* page asked for with the 50 posts that remained
C29_Witness ==
    /\ sub.pc = "returned" /\ sub.limit = 250
    /\ Len(sub.requests) = 3 /\ Len(sub.posts) = 3
    /\ sub.requests[3].limit = 50
    /\ sub.requests[3].after = Some(LastName(sub.posts[2]))

\* C30: when limit > 100 and a page request fails or brings no posts,
\* get_posts stops paging and returns Ok with the posts of the pages fetched
\* before, in fetch order: no error, no panic, no post lost.
C30_FailedPageReturnsFetched ==
    ( /\ sub.limit > PageSize
      /\ sub.answer \in {"empty", "json_err", "send_err"} )
    => ( /\ sub.pc = "returned"
         /\ Len(sub.posts) = Len(sub.requests) - 1
         /\ \A k \in 1..Len(sub.posts) : sub.posts[k].page = k )

=============================================================================
